---------------------------- MODULE Spec2Model ----------------------------
(***************************************************************************)
(* Model of the trade engine of mev_protected_trader.py (class             *)
(* MEVProtectedBuyer): the gas-price estimator, the spend-capacity clamp,  *)
(* the transaction builder, the buy flow with its submit loop and the sell *)
(* flow.                                                                   *)
(*                                                                         *)
(* Units.  TLC's integers are 32 bits wide, so amounts are not counted in  *)
(* wei.  Fees per gas are counted in gwei and ether amounts in szabo       *)
(* (10^12 wei = 1000 gwei, 10^6 szabo = 1 ether).  Python's float carries  *)
(* 53 significant bits of a wei amount; with amounts 10^12 times coarser   *)
(* the model's float carries MantBits significant bits, so that the        *)
(* rounding of float() happens at the same place relative to one ether     *)
(* (2^53 wei is about 0.009 ether, 2^13 szabo is about 0.008 ether).       *)
(*                                                                         *)
(* Every chain call is a step of the environment that either returns a     *)
(* value or raises; a raised exception travels to the nearest enclosing    *)
(* `except Exception` of the source.                                       *)
(***************************************************************************)
EXTENDS Integers, Sequences, FiniteSets, TLC

(***************************************************************************)
(* Program constants                                                       *)
(***************************************************************************)
ETHER == 1000000              \* Web3.to_wei(1, 'ether'), in szabo
GWEI_PER_SZABO == 1000        \* unit conversion: 1 szabo = 1000 gwei
min_eth_balance == ETHER \div 100      \* Web3.to_wei(0.01, 'ether')
max_gas_price == 300          \* Web3.to_wei(300, 'gwei'), in gwei
PRIORITY_FEE_CAP == 3         \* Web3.to_wei(3, 'gwei')
DEFAULT_PRIORITY_FEE == 2     \* Web3.to_wei(2, 'gwei')
PENDING_SAMPLE == 10          \* pending_txns['transactions'][:10]
CLAMP_GAS_LIMIT == 350000     \* gas_price * 350000
FALLBACK_GAS_LIMIT == 350000  \* estimate_gas_limit's fallback
MAX_ATTEMPTS == 3             \* for attempt in range(3)
LAST_RETRY == 2               \* if attempt < 2
APPROVE_GAS == 100000         \* 'gas': 100000
SELL_GAS == 350000            \* 'gas': 350000

(***************************************************************************)
(* Bounds of the model                                                     *)
(***************************************************************************)
MantBits == 13                \* significant bits of the model's float
MaxNonce == 3                 \* the account's transaction count stays <= MaxNonce
MaxRuns == 1                  \* trades one caller starts when two callers share the account

(***************************************************************************)
(* Integer helpers                                                         *)
(***************************************************************************)
Min(a, b) == IF a <= b THEN a ELSE b
Max(a, b) == IF a >= b THEN a ELSE b
Abs(a) == IF a >= 0 THEN a ELSE -a

RECURSIVE Pow(_, _)
Pow(b, n) == IF n = 0 THEN 1 ELSE b * Pow(b, n - 1)

\* floor and ceiling of a / b for b > 0 and any integer a
FloorDiv(a, b) == a \div b
CeilDiv(a, b) == -((-a) \div b)

\* Python's int() of the quotient n / d (d > 0): truncation toward zero
IntTrunc(n, d) == IF n >= 0 THEN n \div d ELSE -((-n) \div d)

\* number of bits of x > 0
RECURSIVE BitLen(_)
BitLen(x) == IF x = 0 THEN 0 ELSE 1 + BitLen(x \div 2)

(***************************************************************************)
(* float(): a non-negative integer rounded to MantBits significant bits,   *)
(* round-half-to-even, as float(int) and float - float do (the exact       *)
(* result, rounded once).                                                  *)
(***************************************************************************)
FloatRoundNat(x) ==
    IF BitLen(x) <= MantBits THEN x
    ELSE LET e == BitLen(x) - MantBits
             u == Pow(2, e)
             q == x \div u
             r == x % u
             up == (2 * r > u) \/ (2 * r = u /\ q % 2 = 1)
         IN  IF up THEN (q + 1) * u ELSE q * u

FloatRound(x) == IF x >= 0 THEN FloatRoundNat(x) ELSE -FloatRoundNat(-x)

\* a - b on two floats holding integers
FloatSub(a, b) == FloatRound(a - b)

(***************************************************************************)
(* float(Web3.from_wei(n, 'ether')) for n > 0: the float nearest to        *)
(* n / ETHER, as significand m (MantBits bits) and binary exponent k:      *)
(* the value is m * 2^(k - MantBits + 1), 2^k <= value < 2^(k+1).          *)
(***************************************************************************)
RECURSIVE ExpUp(_, _)
ExpUp(n, k) == IF n >= ETHER * Pow(2, k + 1) THEN ExpUp(n, k + 1) ELSE k

RECURSIVE ExpDown(_, _)
ExpDown(n, t) == IF n * Pow(2, t) >= ETHER THEN t ELSE ExpDown(n, t + 1)

BinExp(n) == IF n >= ETHER THEN ExpUp(n, 0) ELSE -ExpDown(n, 0)

\* n more bits of the binary long division rem / b, appended to m
RECURSIVE LongDiv(_, _, _, _)
LongDiv(m, rem, b, n) ==
    IF n = 0 THEN <<m, rem>>
    ELSE LET r2 == 2 * rem
             bit == IF r2 >= b THEN 1 ELSE 0
         IN  LongDiv(2 * m + bit, r2 - bit * b, b, n - 1)

FloatOfEther(n) ==
    LET k == BinExp(n)
        a == IF k >= 0 THEN n ELSE n * Pow(2, -k)
        b == IF k >= 0 THEN ETHER * Pow(2, k) ELSE ETHER
        d == LongDiv(1, a - b, b, MantBits - 1)
        up == (2 * d[2] > b) \/ (2 * d[2] = b /\ d[1] % 2 = 1)
        m == IF up THEN d[1] + 1 ELSE d[1]
    IN  IF m = Pow(2, MantBits)
        THEN [m |-> Pow(2, MantBits - 1), k |-> k + 1]
        ELSE [m |-> m, k |-> k]

(***************************************************************************)
(* Web3.to_wei(f, 'ether') of a positive float f: int(Decimal(str(f)) *    *)
(* ETHER).  str(f) is the shortest decimal that float() reads back as f    *)
(* (the closest to f among the shortest): the coarsest multiple of a power *)
(* of ten inside f's rounding interval.  In szabo, with ETHER = 64 * 5^6,  *)
(* f is Fn / den and the interval is [(Fn - Hlo) / den, (Fn + Hup) / den], *)
(* closed when the significand is even (ties go to even).  The interval    *)
(* holds the integer f was made from, so the power of ten is >= 1.         *)
(***************************************************************************)
RECURSIVE CoarsestPow(_, _, _)
CoarsestPow(lo, hi, j) ==
    IF j = 0 \/ (CeilDiv(lo, Pow(10, j)) <= FloorDiv(hi, Pow(10, j))
                 /\ FloorDiv(hi, Pow(10, j)) >= 1)
    THEN j ELSE CoarsestPow(lo, hi, j - 1)

ToWeiOfFloat(f) ==
    LET E5 == ETHER \div 64
        q == MantBits - 1 - f.k
        den == Pow(2, q - 4)
        Fn == 4 * f.m * E5
        Hup == 2 * E5
        Hlo == IF f.m = Pow(2, MantBits - 1) THEN E5 ELSE 2 * E5
        closed == f.m % 2 = 0
        lo == IF closed THEN CeilDiv(Fn - Hlo, den) ELSE FloorDiv(Fn - Hlo, den) + 1
        hi == IF closed THEN FloorDiv(Fn + Hup, den) ELSE CeilDiv(Fn + Hup, den) - 1
        j == CoarsestPow(lo, hi, 7)
        g == Pow(10, j)
        c1 == Max(CeilDiv(lo, g), 1)
        c2 == FloorDiv(hi, g)
        dist(c) == Abs(c * g * den - Fn)
        best == CHOOSE c \in c1..c2 :
                    \A c3 \in c1..c2 : dist(c) < dist(c3) \/ (dist(c) = dist(c3) /\ c <= c3)
    IN  best * g

\* lines 218-221: amount_in_wei after eth_amount = float(Web3.from_wei(max_spend, 'ether'))
AdjustedAmount(max_spend) ==
    IF max_spend = 0 THEN 0 ELSE ToWeiOfFloat(FloatOfEther(max_spend))

(***************************************************************************)
(* calculate_max_spend: balance in szabo, gas_price in gwei per gas.       *)
(***************************************************************************)
estimated_gas_cost(gas_price) == (gas_price * CLAMP_GAS_LIMIT) \div GWEI_PER_SZABO

calculate_max_spend(balance, gas_price) ==
    LET max_spend == FloatSub(FloatSub(FloatRound(balance),
                                       FloatRound(estimated_gas_cost(gas_price))),
                              FloatRound(min_eth_balance))
    IN  Max(0, max_spend)

(***************************************************************************)
(* The capacity clamp of build_optimized_transaction (lines 214-225):      *)
(* requested is Web3.to_wei(eth_amount, 'ether') of the caller's amount.   *)
(* The result is the final amount_in_wei and whether eth_amount <= 0 made  *)
(* the build return None.                                                  *)
(***************************************************************************)
\* a clamp that lets an empty amount through
clamp_amount_unchecked(requested, max_spend) ==
    LET adjusted == max_spend < requested
        amount == IF adjusted THEN AdjustedAmount(max_spend) ELSE requested
    IN  [amount_in_wei |-> amount, adjusted |-> adjusted, insufficient |-> FALSE]

clamp_amount(requested, max_spend) ==
    LET adjusted == max_spend < requested
        amount == IF adjusted THEN AdjustedAmount(max_spend) ELSE requested
    IN  [amount_in_wei |-> amount,
         adjusted |-> adjusted,
         insufficient |-> IF adjusted THEN max_spend = 0 ELSE requested <= 0]

(***************************************************************************)
(* get_optimal_gas_price.  The chain reads it makes:                       *)
(*   latest  [ok, base_fee]   get_block('latest')['baseFeePerGas']         *)
(*   pending [ok, listed, txs] get_block('pending'); listed is FALSE when  *)
(*           the block is falsy or has no 'transactions'; txs is the       *)
(*           sequence of get_transaction outcomes, one per listed hash:    *)
(*           [ok, has_fee, fee]                                            *)
(*   gas     [ok, price]      w3.eth.gas_price, read on the fallback only  *)
(* The result is [raised, max_fee, priority_fee].                          *)
(***************************************************************************)
TxFee(f) == [ok |-> TRUE, has_fee |-> TRUE, fee |-> f]
TxNoFee == [ok |-> TRUE, has_fee |-> FALSE, fee |-> 0]
TxFail == [ok |-> FALSE, has_fee |-> FALSE, fee |-> 0]

\* for tx_hash in pending_txns['transactions'][:10]: the maxFeePerGas collected
RECURSIVE CollectFees(_, _)
CollectFees(txs, i) ==
    IF i > Min(Len(txs), PENDING_SAMPLE) THEN <<>>
    ELSE IF txs[i].ok /\ txs[i].has_fee
         THEN <<txs[i].fee>> \o CollectFees(txs, i + 1)
         ELSE CollectFees(txs, i + 1)

pending_gas_prices(txs) == CollectFees(txs, 1)

\* sorted(xs)[idx], idx counted from 0
SortedAt(xs, idx) ==
    CHOOSE v \in {xs[i] : i \in 1..Len(xs)} :
        /\ Cardinality({i \in 1..Len(xs) : xs[i] < v}) <= idx
        /\ Cardinality({i \in 1..Len(xs) : xs[i] <= v}) > idx

\* sorted(pending_gas_prices)[len(pending_gas_prices)//2]
median_gas_price(prices) == SortedAt(prices, Len(prices) \div 2)

\* int(x * 1.2) and int(x * 0.1)
TimesOnePointTwo(x) == IntTrunc(x * 12, 10)
TimesPointOne(x) == IntTrunc(x, 10)

priority_fee_of(base_fee, pending) ==
    IF pending.listed
    THEN LET prices == pending_gas_prices(pending.txs)
         IN  IF Len(prices) > 0
             THEN Min(median_gas_price(prices) - base_fee, PRIORITY_FEE_CAP)
             ELSE DEFAULT_PRIORITY_FEE
    ELSE DEFAULT_PRIORITY_FEE

\* a fallback that forgets the ceiling
gas_price_fallback_uncapped(gas) ==
    IF gas.ok
    THEN [raised |-> FALSE,
          max_fee |-> TimesOnePointTwo(gas.price),
          priority_fee |-> TimesPointOne(gas.price)]
    ELSE [raised |-> TRUE, max_fee |-> 0, priority_fee |-> 0]

\* the except branch: lines 121-128
gas_price_fallback(gas) ==
    IF gas.ok
    THEN [raised |-> FALSE,
          max_fee |-> Min(TimesOnePointTwo(gas.price), max_gas_price),
          priority_fee |-> TimesPointOne(gas.price)]
    ELSE [raised |-> TRUE, max_fee |-> 0, priority_fee |-> 0]

get_optimal_gas_price(latest, pending, gas) ==
    IF latest.ok /\ pending.ok
    THEN LET priority_fee == priority_fee_of(latest.base_fee, pending)
         IN  [raised |-> FALSE,
              max_fee |-> Min(TimesOnePointTwo(latest.base_fee + priority_fee),
                              max_gas_price),
              priority_fee |-> priority_fee]
    ELSE gas_price_fallback(gas)

(***************************************************************************)
(* Float arithmetic of the quotes.  A float is [n, e], the value           *)
(* n * 2^e with at most MantBits significant bits in n.  Every operation   *)
(* gives the exact result rounded once, half to even.                      *)
(***************************************************************************)
Norm(n, e) ==
    LET b == BitLen(Abs(n))
    IN  IF b > MantBits
        THEN [n |-> n \div Pow(2, b - MantBits), e |-> e + b - MantBits]
        ELSE [n |-> n, e |-> e]

\* the float nearest to the integer n * 2^e
RoundInt(n, e) == Norm(FloatRound(n), e)

\* float(i) of an integer
FloatOfInt(i) == RoundInt(i, 0)

\* least k >= 0 with a * 2^k / b >= 2^(MantBits - 1), for 0 < a / b < 2^(MantBits - 1)
RECURSIVE ScaleUp(_, _, _)
ScaleUp(a, b, k) ==
    IF (a * Pow(2, k)) \div b >= Pow(2, MantBits - 1) THEN k ELSE ScaleUp(a, b, k + 1)

\* the float nearest to a / b, a >= 0, b > 0
FloatOfRatio(a, b) ==
    IF a = 0 THEN [n |-> 0, e |-> 0]
    ELSE LET k == ScaleUp(a, b, 0)
             q == (a * Pow(2, k)) \div b
             r == (a * Pow(2, k)) % b
             up == (2 * r > b) \/ (2 * r = b /\ q % 2 = 1)
         IN  Norm(IF up THEN q + 1 ELSE q, -k)

\* x / d for a float x >= 0 and an integer d > 0
FloatDivInt(x, d) ==
    LET r == FloatOfRatio(x.n, d) IN [n |-> r.n, e |-> r.e + x.e]

\* x / y for floats x >= 0, y > 0
FloatDiv(x, y) ==
    LET r == FloatOfRatio(x.n, y.n) IN [n |-> r.n, e |-> r.e + x.e - y.e]

\* 1 - x for a float x >= 0; an x below a quarter of the spacing of the floats
\* under 1 leaves 1
OneMinus(x) ==
    IF x.e < -(2 * MantBits + 2) THEN [n |-> 1, e |-> 0]
    ELSE IF x.e <= 0 THEN RoundInt(Pow(2, -x.e) - x.n, x.e)
    ELSE RoundInt(1 - x.n * Pow(2, x.e), 0)

\* x > y for floats x >= 0, y > 0
FloatGt(x, y) ==
    LET mx == BitLen(x.n) + x.e
        my == BitLen(y.n) + y.e
        e == Min(x.e, y.e)
    IN  IF x.n = 0 THEN FALSE
        ELSE IF mx # my THEN mx > my
        ELSE x.n * Pow(2, x.e - e) > y.n * Pow(2, y.e - e)

FloatMul(x, y) == RoundInt(x.n * y.n, x.e + y.e)

\* int(x): truncation toward zero
IntOfFloat(x) ==
    IF x.e >= 0 THEN x.n * Pow(2, x.e) ELSE IntTrunc(x.n, Pow(2, -x.e))

\* 1 - float(slippage)/100, the slippage counted in tenths of a percent
slippage_factor(slippage) == OneMinus(FloatDivInt(FloatOfRatio(slippage, 10), 100))

\* the caller's eth_amount, the float whose Web3.to_wei is requested > 0
eth_amount_of(requested) ==
    LET f == FloatOfEther(requested) IN [n |-> f.m, e |-> f.k - MantBits + 1]

(***************************************************************************)
(* check_token_liquidity (lines 130-197).  eth_amount is requested / ETHER *)
(* ether; the reads are                                                    *)
(*   info_ok   symbol() and decimals() returned                            *)
(*   quote     [ok, out]  getAmountsOut(amount_in_wei)[1]                  *)
(*   supply    [ok, total] totalSupply()                                   *)
(*   small     [ok, out]  getAmountsOut(0.1 ether)[1]                      *)
(* The result is [ok, ratio, reason]; ratio is the float liquidity_ratio   *)
(* of line 162, the float 0 where the code returns 0.                      *)
(***************************************************************************)
ReasonInvalid == "Error checking liquidity"
ReasonNoInfo == "Could not get token information"
ReasonNoSupply == "Token has no total supply"
ReasonZeroOutput == "No tokens returned for trade. Insufficient liquidity."
ReasonImpact == "High price impact"
ReasonUniswap == "Error checking Uniswap liquidity"
ReasonOk == "Sufficient liquidity"

Rejected(reason) == [ok |-> FALSE, ratio |-> [n |-> 0, e |-> 0], reason |-> reason]

\* line 162: float(tokens_out) / float(total_supply)
liquidity_ratio(out, total) == FloatDiv(FloatOfInt(out), FloatOfInt(total))

\* lines 178-180: price_impact > 0.10 with
\* price_impact = abs(1 - (amounts[1] / eth_amount) / (small_amounts[1] / 0.1)),
\* every operation in floats
price_impact(out, requested, small_out) ==
    LET tenth == FloatOfRatio(1, 10)
        rate == FloatDiv(FloatOfInt(out), eth_amount_of(requested))
        reference == FloatDiv(FloatOfInt(small_out), tenth)
        d == OneMinus(FloatDiv(rate, reference))
    IN  [n |-> Abs(d.n), e |-> d.e]

price_impact_high(out, requested, small_out) ==
    FloatGt(price_impact(out, requested, small_out), FloatOfRatio(1, 10))

check_token_liquidity(addr_ok, requested, info_ok, quote, supply, small) ==
    IF ~addr_ok \/ requested < 0 THEN Rejected(ReasonInvalid)   \* validate_address, to_wei raise
    ELSE IF ~info_ok THEN Rejected(ReasonNoInfo)
    ELSE IF ~quote.ok \/ ~supply.ok THEN Rejected(ReasonUniswap)
    ELSE IF supply.total = 0 THEN Rejected(ReasonNoSupply)
    ELSE IF quote.out = 0 THEN Rejected(ReasonUniswap)    \* line 165: 10^18 / amounts[1] raises
    ELSE IF ~small.ok THEN Rejected(ReasonUniswap)
    ELSE IF requested = 0 \/ small.out = 0 THEN Rejected(ReasonUniswap)  \* line 178 divides by zero
    ELSE IF price_impact_high(quote.out, requested, small.out)
         THEN [ok |-> FALSE, ratio |-> liquidity_ratio(quote.out, supply.total),
               reason |-> ReasonImpact]
         ELSE [ok |-> TRUE, ratio |-> liquidity_ratio(quote.out, supply.total),
               reason |-> ReasonOk]

(***************************************************************************)
(* min_tokens = int(float(amounts[1]) * (1 - float(slippage)/100)), the    *)
(* slippage counted in tenths of a percent (line 232).                     *)
(***************************************************************************)
min_tokens_of(out, slippage) ==
    IntOfFloat(FloatMul(FloatOfInt(out), slippage_factor(slippage)))

\* an estimate taken without its safety buffer
estimate_gas_limit_unbuffered(probe) ==
    IF probe.ok THEN probe.estimated ELSE FALLBACK_GAS_LIMIT

\* estimate_gas_limit (lines 76-83): probe is [ok, estimated]
estimate_gas_limit(probe) ==
    IF probe.ok THEN IntTrunc(probe.estimated * 12, 10) ELSE FALLBACK_GAS_LIMIT

(***************************************************************************)
(* Python values returned to the caller, and the handlers that make them.  *)
(***************************************************************************)
PyNone == [py |-> "None"]
PyStr(h) == [py |-> "str", s |-> h]
TxHash == "0xhash"

Returned(v) == [state |-> "returned", value |-> v]
Raised(msg) == [state |-> "raised", value |-> [py |-> "exception", error |-> msg]]
Pending == [state |-> "pending", value |-> PyNone]

\* build_optimized_transaction's except (256-258) and the early returns (209, 225):
\* None, which buy_token_protected turns into None (267-268)
build_failed(msg) == Returned(PyNone)
\* the retry loop's last except (299-301)
all_attempts_failed(msg) == Returned(PyNone)
\* buy_token_protected's outer except (303-305)
buy_except(msg) == Returned(PyNone)
\* receipt['status'] == 1 (285-290) and the else branch (291-293)
buy_success(tx_hash) == Returned(PyStr(tx_hash))
\* a reverted swap reported like a mined one
buy_reverted_as_success == Returned(PyStr(TxHash))
buy_reverted == Returned(PyNone)
\* a sell_tokens without its except: the exception reaches the caller
sell_except_propagates(msg) == Raised(msg)
\* sell_tokens' except (423-427)
sell_except(msg) == Returned([py |-> "dict", success |-> FALSE, error |-> msg])
\* sell_tokens' success record (409-419)
sell_success(tx_hash, amount, gas_used) ==
    Returned([py |-> "dict", success |-> TRUE, transaction_hash |-> tx_hash,
              token_amount |-> amount, gas_used |-> gas_used])

(***************************************************************************)
(* State                                                                   *)
(***************************************************************************)
VARIABLES
    pc,                \* where the running invocation stands
    routerAddressSet,  \* whether the object has an attribute router_address
    args,              \* the arguments of the running invocation
    loc,               \* its local variables, named as in the source
    hist,              \* what the invocation did so far (history, not program state)
    result,            \* what it handed back to its caller
    chainNonce,        \* the account's transaction count on chain
    fn_in, fn_out      \* argument and result of a function applied on its own

vars == <<pc, routerAddressSet, args, loc, hist, result, chainNonce, fn_in, fn_out>>

NoTxn == [kind |-> "none", value |-> 0, maxFeePerGas |-> 0, maxPriorityFeePerGas |-> 0,
          nonce |-> 0, gas |-> 0, min_out |-> 0, amount |-> 0]

NoArgs == [op |-> "none", addr_ok |-> TRUE, requested |-> 0, slippage |-> 0,
           amount |-> 0, min_eth_received |-> -1]

NoLocals == [max_fee |-> 0, priority_fee |-> 0, balance |-> 0, max_spend |-> 0,
             amount_in_wei |-> 0, quoted |-> 0, min_tokens |-> 0,
             unsigned_txn |-> NoTxn, attempt |-> 0, receipt_status |-> -1,
             token_balance |-> 0, amount_in_token_units |-> 0, allowance |-> 0,
             approve_txn |-> NoTxn, approve_status |-> -1,
             expected_eth |-> 0, gas_used |-> 0,
             quote_amount |-> 0,     \* the amount the last getAmountsOut was asked for
             has_liquidity |-> -1,   \* check_token_liquidity's verdict: 1, 0, -1 not yet
             insufficient |-> -1,    \* eth_amount <= 0 at line 223: 1, 0, -1 not yet
             decimals |-> -1,        \* the token's decimals, -1 not yet read
             probe_ok |-> -1,        \* estimate_gas returned: 1, raised: 0, -1 not yet
             estimated |-> 0]        \* what estimate_gas returned

NoHist == [sends |-> 0,          \* calls of send_raw_transaction for the swap
           accepted |-> 0,       \* those the node accepted
           sleeps |-> 0,         \* calls of time.sleep(1)
           first_accept |-> 0,   \* sends when the node first accepted, 0: not yet
           status0_at |-> -1,    \* sends when a receipt with status 0 came, -1: none
           status1_seen |-> FALSE,
           calls_ok |-> TRUE,    \* every chain call so far returned
           built |-> {},         \* the transactions built
           mined |-> FALSE,      \* the swap was mined
           approve_sends |-> 0,  \* calls of send_raw_transaction for the approval
           nonce_reads |-> 0,    \* calls of get_transaction_count
           signs |-> 0,          \* calls of sign_transaction
           stages |-> <<>>,      \* the steps entered, each at its first entry
           sent |-> {}]          \* the transactions handed to send_raw_transaction

\* inputs of the invocations
Requested == {-ETHER, 0, ETHER \div 1000, ETHER \div 2, ETHER}
Slippages == {0, 5, 100, 1000, 1500}  \* tenths of a percent
DEFAULT_SLIPPAGE == 5                  \* DEFAULT_SLIPPAGE '0.5'

\* values the chain returns
BaseFees == {0, 100, 290}
GasPrices == {0, 50, 400}
PendingBlocks ==
    { [ok |-> FALSE, listed |-> FALSE, txs |-> <<>>],
      [ok |-> TRUE, listed |-> FALSE, txs |-> <<>>],
      [ok |-> TRUE, listed |-> TRUE, txs |-> <<>>],
      [ok |-> TRUE, listed |-> TRUE, txs |-> <<TxFail, TxNoFee, TxFee(101)>>],
      [ok |-> TRUE, listed |-> TRUE, txs |-> <<TxFee(400), TxFee(90)>>] }
LatestBlocks == {[ok |-> FALSE, base_fee |-> 0]} \cup {[ok |-> TRUE, base_fee |-> b] : b \in BaseFees}
GasPriceReads == {[ok |-> FALSE, price |-> 0]} \cup {[ok |-> TRUE, price |-> g] : g \in GasPrices}
Balances == {0, ETHER \div 200, ETHER \div 2, ETHER + 1}
TokenQuotes == {[ok |-> FALSE, out |-> 0], [ok |-> TRUE, out |-> 0], [ok |-> TRUE, out |-> 50],
                [ok |-> TRUE, out |-> 10007]}
SmallQuotes == {[ok |-> FALSE, out |-> 0], [ok |-> TRUE, out |-> 5], [ok |-> TRUE, out |-> 100]}
Supplies == {[ok |-> FALSE, total |-> 0], [ok |-> TRUE, total |-> 0], [ok |-> TRUE, total |-> 1000]}
GasProbes == {[ok |-> FALSE, estimated |-> 0], [ok |-> TRUE, estimated |-> 150000],
              [ok |-> TRUE, estimated |-> 400000]}

Init ==
    /\ pc = "idle"
    /\ routerAddressSet = FALSE       \* __init__ (20-40) assigns no router_address
    /\ args = NoArgs
    /\ loc = NoLocals
    /\ hist = NoHist
    /\ result = Pending
    /\ chainNonce = 0
    /\ fn_in = <<>>
    /\ fn_out = <<>>

Finish(r) == /\ result' = r
             /\ pc' = "done"

Note(ok) == [hist EXCEPT !.calls_ok = @ /\ ok]

\* h with the step named entered
Stage(h, name) ==
    IF \E i \in 1..Len(h.stages) : h.stages[i] = name THEN h
    ELSE [h EXCEPT !.stages = Append(@, name)]

(***************************************************************************)
(* buy_token_protected (260-305) and build_optimized_transaction (199-258) *)
(***************************************************************************)
\* the call, slippage defaulted at line 263
BuyCall ==
    /\ pc = "idle"
    /\ chainNonce < MaxNonce
    /\ \E addr_ok \in BOOLEAN, requested \in Requested,
          slippage \in Slippages \cup {-1} :
          args' = [NoArgs EXCEPT !.op = "buy", !.addr_ok = addr_ok,
                                 !.requested = requested,
                                 !.slippage = IF slippage = -1 THEN DEFAULT_SLIPPAGE
                                              ELSE slippage]
    /\ loc' = NoLocals
    /\ hist' = NoHist
    /\ result' = Pending
    /\ pc' = "b_liquidity"
    /\ UNCHANGED <<routerAddressSet, chainNonce, fn_in, fn_out>>

\* lines 203-209
BuildLiquidity ==
    /\ pc = "b_liquidity"
    /\ \E info_ok \in BOOLEAN, quote \in TokenQuotes, supply \in Supplies,
          small \in SmallQuotes :
          LET r == check_token_liquidity(args.addr_ok, args.requested, info_ok,
                                         quote, supply, small)
              h == Note(info_ok /\ quote.ok /\ supply.ok /\ small.ok)
              quoted == args.addr_ok /\ args.requested >= 0 /\ info_ok   \* line 148 reached
          IN  /\ hist' = Stage(IF quoted THEN Stage(h, "quote") ELSE h, "liquidity")
              /\ loc' = [loc EXCEPT !.has_liquidity = IF r.ok THEN 1 ELSE 0]
              /\ IF r.ok
                 THEN /\ pc' = "b_gas"
                      /\ UNCHANGED result
                 ELSE Finish(build_failed(r.reason))
    /\ UNCHANGED <<routerAddressSet, args, chainNonce, fn_in, fn_out>>

\* line 212
BuildGas ==
    /\ pc = "b_gas"
    /\ \E latest \in LatestBlocks, pending \in PendingBlocks, gas \in GasPriceReads :
          LET plan == get_optimal_gas_price(latest, pending, gas)
          IN  /\ hist' = Stage(Note(latest.ok /\ pending.ok), "gas")
              /\ IF plan.raised
                 THEN /\ Finish(build_failed("gas price"))
                      /\ UNCHANGED loc
                 ELSE /\ loc' = [loc EXCEPT !.max_fee = plan.max_fee,
                                            !.priority_fee = plan.priority_fee]
                      /\ pc' = "b_clamp"
                      /\ UNCHANGED result
    /\ UNCHANGED <<routerAddressSet, args, chainNonce, fn_in, fn_out>>

\* lines 214-225
BuildClamp ==
    /\ pc = "b_clamp"
    /\ \/ /\ hist' = Stage(Note(FALSE), "clamp")   \* get_balance raises
          /\ Finish(build_failed("get_balance"))
          /\ UNCHANGED loc
       \/ \E balance \in Balances :
             LET max_spend == calculate_max_spend(balance, loc.max_fee)
                 c == clamp_amount(args.requested, max_spend)
             IN  /\ loc' = [loc EXCEPT !.balance = balance, !.max_spend = max_spend,
                                       !.amount_in_wei = c.amount_in_wei,
                                       !.insufficient = IF c.insufficient THEN 1 ELSE 0]
                 /\ hist' = Stage(hist, "clamp")
                 /\ IF c.insufficient
                    THEN Finish(build_failed("Insufficient funds"))
                    ELSE /\ pc' = "b_quote"
                         /\ UNCHANGED result
    /\ UNCHANGED <<routerAddressSet, args, chainNonce, fn_in, fn_out>>

\* lines 227-232
BuildQuote ==
    /\ pc = "b_quote"
    /\ \E quote \in TokenQuotes :
          /\ hist' = Stage(Note(quote.ok), "quote")
          /\ IF quote.ok
             THEN /\ loc' = [loc EXCEPT !.quoted = quote.out,
                                        !.quote_amount = loc.amount_in_wei,
                                        !.min_tokens = min_tokens_of(quote.out, args.slippage)]
                  /\ pc' = "b_txn"
                  /\ UNCHANGED result
             ELSE /\ Finish(build_failed("getAmountsOut"))
                  /\ UNCHANGED loc
    /\ UNCHANGED <<routerAddressSet, args, chainNonce, fn_in, fn_out>>

\* the unsigned transaction of lines 236-252
buy_transaction(l, nonce, gas_limit) ==
    [kind |-> "buy", value |-> l.amount_in_wei, maxFeePerGas |-> l.max_fee,
     maxPriorityFeePerGas |-> l.priority_fee, nonce |-> nonce, gas |-> gas_limit,
     min_out |-> l.min_tokens, amount |-> 0]

\* lines 234-254: the deadline's block read, the encoding of the call (a negative
\* min_tokens is no uint256), the nonce read (line 246), the gas probe
BuildTxn ==
    /\ pc = "b_txn"
    /\ \E block_ok \in BOOLEAN, nonce_ok \in BOOLEAN, probe \in GasProbes :
          LET nonce_read == block_ok /\ loc.min_tokens >= 0
              h == [hist EXCEPT !.nonce_reads = IF nonce_read THEN @ + 1 ELSE @]
          IN  IF nonce_read /\ nonce_ok
              THEN LET txn == buy_transaction(loc, chainNonce, estimate_gas_limit(probe))
                   IN  /\ loc' = [loc EXCEPT !.unsigned_txn = txn,
                                              !.probe_ok = IF probe.ok THEN 1 ELSE 0,
                                              !.estimated = probe.estimated]
                       /\ hist' = Stage([h EXCEPT !.built = @ \cup {txn},
                                                  !.calls_ok = @ /\ probe.ok], "build")
                       /\ pc' = "b_sign"
                       /\ UNCHANGED result
              ELSE /\ hist' = [h EXCEPT !.calls_ok = @ /\ block_ok /\ nonce_ok]
                   /\ Finish(build_failed("build"))
                   /\ UNCHANGED loc
    /\ UNCHANGED <<routerAddressSet, args, chainNonce, fn_in, fn_out>>

\* line 271
BuySign ==
    /\ pc = "b_sign"
    /\ hist' = Stage([hist EXCEPT !.signs = @ + 1], "sign")
    /\ \/ /\ pc' = "b_send"
          /\ UNCHANGED result
       \/ Finish(buy_except("sign_transaction"))
    /\ UNCHANGED <<routerAddressSet, args, loc, chainNonce, fn_in, fn_out>>

\* a retry that builds the transaction anew
RetryAndRebuild(h) ==
    IF loc.attempt < LAST_RETRY
    THEN /\ loc' = [loc EXCEPT !.attempt = @ + 1]
         /\ hist' = [h EXCEPT !.sleeps = @ + 1]
         /\ pc' = "b_txn"
         /\ UNCHANGED result
    ELSE /\ hist' = h
         /\ Finish(all_attempts_failed("All attempts failed"))
         /\ UNCHANGED loc

\* lines 295-301, entered from anywhere inside the loop's try, with history h
RetryOrGiveUp(h) ==
    IF loc.attempt < LAST_RETRY
    THEN /\ loc' = [loc EXCEPT !.attempt = @ + 1]
         /\ hist' = [h EXCEPT !.sleeps = @ + 1]        \* time.sleep(1)
         /\ pc' = "b_send"
         /\ UNCHANGED result
    ELSE /\ hist' = h
         /\ Finish(all_attempts_failed("All attempts failed"))
         /\ UNCHANGED loc

\* line 278
BuySend ==
    /\ pc = "b_send"
    /\ LET h == Stage([hist EXCEPT !.sends = @ + 1,
                                   !.sent = @ \cup {loc.unsigned_txn}], "submit")
       IN  \/ /\ hist' = [h EXCEPT !.accepted = @ + 1,
                                   !.first_accept = IF @ = 0 THEN h.sends ELSE @]
              /\ pc' = "b_wait"
              /\ UNCHANGED <<loc, result>>
           \/ RetryOrGiveUp([h EXCEPT !.calls_ok = FALSE])
    /\ UNCHANGED <<routerAddressSet, args, chainNonce, fn_in, fn_out>>

\* lines 283-293: the receipt arrives once the transaction is mined; every send of
\* the loop carries the same signed transaction, which has one receipt
BuyWait ==
    /\ pc = "b_wait"
    /\ \/ \E status \in (IF hist.status1_seen THEN {1} ELSE {0, 1}) :
             /\ chainNonce' = IF hist.mined THEN chainNonce ELSE chainNonce + 1
             /\ IF status = 1
                THEN /\ loc' = [loc EXCEPT !.receipt_status = 1]
                     /\ hist' = [hist EXCEPT !.mined = TRUE, !.status1_seen = TRUE]
                     /\ pc' = "b_balance"
                     /\ UNCHANGED result
                ELSE /\ loc' = [loc EXCEPT !.receipt_status = 0]
                     /\ hist' = [hist EXCEPT !.mined = TRUE, !.status0_at = hist.sends]
                     /\ Finish(buy_reverted)
       \/ /\ RetryOrGiveUp([hist EXCEPT !.calls_ok = FALSE])
          /\ UNCHANGED chainNonce
    /\ UNCHANGED <<routerAddressSet, args, fn_in, fn_out>>

\* lines 286-290: the token balance is read for the message, then the hash returned
BuyBalance ==
    /\ pc = "b_balance"
    /\ \/ /\ Finish(buy_success(TxHash))
          /\ UNCHANGED <<loc, hist>>
       \/ RetryOrGiveUp([hist EXCEPT !.calls_ok = FALSE])
    /\ UNCHANGED <<routerAddressSet, args, chainNonce, fn_in, fn_out>>

\* the caller has the result; nothing of the invocation is kept but the chain's state
Return ==
    /\ pc = "done"
    /\ pc' = "idle"
    /\ args' = NoArgs
    /\ loc' = NoLocals
    /\ hist' = NoHist
    /\ result' = Pending
    /\ UNCHANGED <<routerAddressSet, chainNonce, fn_in, fn_out>>

BuyNext ==
    \/ BuyCall \/ BuildLiquidity \/ BuildGas \/ BuildClamp \/ BuildQuote \/ BuildTxn
    \/ BuySign \/ BuySend \/ BuyWait \/ BuyBalance \/ Return

(***************************************************************************)
(* sell_tokens (307-427).  amount is counted in tenths of a token,         *)
(* slippage in tenths of a percent; min_eth_received is -1 for None.       *)
(***************************************************************************)
SellAmounts == {5, 10, 300}
TokenBalances == {0, 5, 20}
Decimals == {0, 1}
Allowances == {0, 100}
EthQuotes == {[ok |-> FALSE, out |-> 0], [ok |-> TRUE, out |-> 40000]}
PriorityFees == {1, 2}
MinEthGiven == {-1, 0}
GAS_USED == 120000                    \* receipt['gasUsed'] of a mined swap

MsgNoAttribute == "'MEVProtectedBuyer' object has no attribute 'router_address'"
MsgSlippage == "Slippage must be between 0 and 100"
MsgNoTokens == "No tokens found in wallet"
MsgInsufficient == "Insufficient balance"
MsgReverted == "Transaction failed"
MsgAddress == "invalid address"
MsgCall == "chain call failed"

\* int(amount * (10 ** decimals))
amount_in_token_units_of(amount, decimals) == IntTrunc(amount * Pow(10, decimals), 10)

\* int(expected_eth * (1 - slippage/100)) unless the caller gave min_eth_received
min_eth_received_of(given, expected_eth, slippage) ==
    IF given = -1
    THEN IntOfFloat(FloatMul(FloatOfInt(expected_eth), slippage_factor(slippage)))
    ELSE given

\* max_fee_per_gas = base_fee * 2 + priority_fee (line 385)
sell_max_fee_per_gas(base_fee, priority_fee) == base_fee * 2 + priority_fee

SellCall ==
    /\ pc = "idle"
    /\ chainNonce < MaxNonce
    /\ \E addr_ok \in BOOLEAN, amount \in SellAmounts, given \in MinEthGiven,
          slippage \in Slippages \cup {-1} :
          args' = [NoArgs EXCEPT !.op = "sell", !.addr_ok = addr_ok, !.amount = amount,
                                 !.min_eth_received = given,
                                 !.slippage = IF slippage = -1 THEN DEFAULT_SLIPPAGE
                                              ELSE slippage]
    /\ loc' = NoLocals
    /\ hist' = NoHist
    /\ result' = Pending
    /\ pc' = "s_validate"
    /\ UNCHANGED <<routerAddressSet, chainNonce, fn_in, fn_out>>

\* a validation that lets every slippage through
slippage_valid_any(slippage) == TRUE
\* lines 318-323
slippage_valid(slippage) == ~(slippage <= 0 \/ slippage >= 1000)

SellValidate ==
    /\ pc = "s_validate"
    /\ hist' = Stage(hist, "validate")
    /\ IF ~args.addr_ok THEN Finish(sell_except(MsgAddress))
       ELSE IF ~slippage_valid(args.slippage) THEN Finish(sell_except(MsgSlippage))
       ELSE /\ pc' = "s_info"
            /\ UNCHANGED result
    /\ UNCHANGED <<routerAddressSet, args, loc, chainNonce, fn_in, fn_out>>

\* lines 325-342
SellTokenInfo ==
    /\ pc = "s_info"
    /\ \E info_ok \in BOOLEAN, decimals \in Decimals, token_balance \in TokenBalances :
          LET units == amount_in_token_units_of(args.amount, decimals)
              read == [loc EXCEPT !.decimals = decimals, !.token_balance = token_balance]
          IN  /\ hist' = Stage(Note(info_ok), "token_info")
              /\ IF ~info_ok THEN Finish(sell_except(MsgCall)) /\ UNCHANGED loc
                 ELSE IF token_balance = 0
                      THEN Finish(sell_except(MsgNoTokens)) /\ loc' = read
                 ELSE IF units > token_balance
                      THEN /\ Finish(sell_except(MsgInsufficient))
                           /\ loc' = [read EXCEPT !.amount_in_token_units = units]
                 ELSE /\ loc' = [read EXCEPT !.amount_in_token_units = units]
                      /\ pc' = "s_allowance"
                      /\ UNCHANGED result
    /\ UNCHANGED <<routerAddressSet, args, chainNonce, fn_in, fn_out>>

\* lines 345-348 on an object without router_address: the attribute lookup raises
SellAllowanceNoAttr ==
    /\ pc = "s_allowance"
    /\ ~routerAddressSet
    /\ Finish(sell_except(MsgNoAttribute))
    /\ UNCHANGED <<routerAddressSet, args, loc, hist, chainNonce, fn_in, fn_out>>

\* an approval asked for also when the allowance equals the amount
needs_approval_or_equal(allowance, units) == allowance <= units
\* line 351
needs_approval(allowance, units) == allowance < units

\* lines 345-351 on an object that was given a router_address
SellAllowance ==
    /\ pc = "s_allowance"
    /\ routerAddressSet
    /\ \/ /\ hist' = Stage(Note(FALSE), "allowance")
          /\ Finish(sell_except(MsgCall))
          /\ UNCHANGED loc
       \/ \E allowance \in Allowances :
             /\ loc' = [loc EXCEPT !.allowance = allowance]
             /\ hist' = Stage(hist, "allowance")
             /\ pc' = IF needs_approval(allowance, loc.amount_in_token_units)
                      THEN "s_approve" ELSE "s_quote"
             /\ UNCHANGED result
    /\ UNCHANGED <<routerAddressSet, args, chainNonce, fn_in, fn_out>>

\* the approval transaction of lines 353-362
approve_transaction(units, nonce, fee, tip) ==
    [kind |-> "approve", value |-> 0, maxFeePerGas |-> fee, maxPriorityFeePerGas |-> tip,
     nonce |-> nonce, gas |-> APPROVE_GAS, min_out |-> 0, amount |-> units]

\* lines 352-364: the nonce (358) and the gas price (360, 361) are read, the
\* approval is built and signed (364); the nonce read is the first call of the block
SellApproveBuild ==
    /\ pc = "s_approve"
    /\ \/ /\ hist' = Stage([hist EXCEPT !.nonce_reads = @ + 1, !.calls_ok = FALSE],
                            "approval")
          /\ Finish(sell_except(MsgCall))
          /\ UNCHANGED loc
       \/ \E fee \in GasPrices, tip \in GasPrices :
             LET txn == approve_transaction(loc.amount_in_token_units, chainNonce, fee, tip)
             IN  /\ loc' = [loc EXCEPT !.approve_txn = txn]
                 /\ hist' = Stage([hist EXCEPT !.built = @ \cup {txn},
                                               !.nonce_reads = @ + 1,
                                               !.signs = @ + 1], "approval")
                 /\ pc' = "s_approve_send"
                 /\ UNCHANGED result
    /\ UNCHANGED <<routerAddressSet, args, chainNonce, fn_in, fn_out>>

\* line 365
SellApproveSend ==
    /\ pc = "s_approve_send"
    /\ LET h == [hist EXCEPT !.approve_sends = @ + 1,
                             !.sent = @ \cup {loc.approve_txn}]
       IN  \/ /\ hist' = [h EXCEPT !.calls_ok = FALSE]
              /\ Finish(sell_except(MsgCall))
           \/ /\ pc' = "s_approve_wait"
              /\ hist' = h
              /\ UNCHANGED result
    /\ UNCHANGED <<routerAddressSet, args, loc, chainNonce, fn_in, fn_out>>

\* line 366: the receipt is awaited and not looked at
SellApproveWait ==
    /\ pc = "s_approve_wait"
    /\ \/ /\ hist' = Note(FALSE)
          /\ Finish(sell_except(MsgCall))
          /\ UNCHANGED <<loc, chainNonce>>
       \/ \E status \in {0, 1} :
             /\ loc' = [loc EXCEPT !.approve_status = status]
             /\ chainNonce' = chainNonce + 1
             /\ pc' = "s_quote"
             /\ UNCHANGED <<hist, result>>
    /\ UNCHANGED <<routerAddressSet, args, fn_in, fn_out>>

\* lines 368-377
SellQuote ==
    /\ pc = "s_quote"
    /\ \E quote \in EthQuotes :
          /\ hist' = Stage(Note(quote.ok), "quote")
          /\ IF quote.ok
             THEN /\ loc' = [loc EXCEPT !.expected_eth = quote.out,
                                        !.min_tokens = min_eth_received_of(
                                            args.min_eth_received, quote.out, args.slippage)]
                  /\ pc' = "s_build"
                  /\ UNCHANGED result
             ELSE /\ Finish(sell_except(MsgCall))
                  /\ UNCHANGED loc
    /\ UNCHANGED <<routerAddressSet, args, chainNonce, fn_in, fn_out>>

\* the swap transaction of lines 388-400
sell_transaction(l, nonce, base_fee, priority_fee) ==
    [kind |-> "sell", value |-> 0,
     maxFeePerGas |-> sell_max_fee_per_gas(base_fee, priority_fee),
     maxPriorityFeePerGas |-> priority_fee, nonce |-> nonce, gas |-> SELL_GAS,
     min_out |-> l.min_tokens, amount |-> l.amount_in_token_units]

\* lines 379-403: base fee (383), priority fee (384) and nonce (396) are read, the
\* swap built and signed (403); a failing call comes before or after the nonce read
SellBuild ==
    /\ pc = "s_build"
    /\ \/ \E nonce_read \in BOOLEAN :
             /\ hist' = [hist EXCEPT !.calls_ok = FALSE,
                                     !.nonce_reads = IF nonce_read THEN @ + 1 ELSE @]
             /\ Finish(sell_except(MsgCall))
             /\ UNCHANGED loc
       \/ \E base_fee \in BaseFees, priority_fee \in PriorityFees :
             LET txn == sell_transaction(loc, chainNonce, base_fee, priority_fee)
             IN  /\ loc' = [loc EXCEPT !.unsigned_txn = txn]
                 /\ hist' = Stage(Stage([hist EXCEPT !.built = @ \cup {txn},
                                                     !.nonce_reads = @ + 1,
                                                     !.signs = @ + 1], "build"), "sign")
                 /\ pc' = "s_send"
                 /\ UNCHANGED result
    /\ UNCHANGED <<routerAddressSet, args, chainNonce, fn_in, fn_out>>

\* line 404: one broadcast, its failure goes to the except of line 423
SellSend ==
    /\ pc = "s_send"
    /\ LET h == Stage([hist EXCEPT !.sends = @ + 1,
                                   !.sent = @ \cup {loc.unsigned_txn}], "submit")
       IN  \/ /\ hist' = [h EXCEPT !.accepted = @ + 1, !.first_accept = h.sends]
              /\ pc' = "s_wait"
              /\ UNCHANGED result
           \/ /\ hist' = [h EXCEPT !.calls_ok = FALSE]
              /\ Finish(sell_except(MsgCall))
    /\ UNCHANGED <<routerAddressSet, args, loc, chainNonce, fn_in, fn_out>>

\* lines 406-421
SellWait ==
    /\ pc = "s_wait"
    /\ \/ /\ hist' = Note(FALSE)
          /\ Finish(sell_except(MsgCall))
          /\ UNCHANGED <<loc, chainNonce>>
       \/ \E status \in {0, 1} :
             /\ chainNonce' = chainNonce + 1
             /\ loc' = [loc EXCEPT !.receipt_status = status, !.gas_used = GAS_USED]
             /\ IF status = 1
                THEN /\ hist' = [hist EXCEPT !.mined = TRUE, !.status1_seen = TRUE]
                     /\ Finish(sell_success(TxHash, args.amount, GAS_USED))
                ELSE /\ hist' = [hist EXCEPT !.mined = TRUE, !.status0_at = hist.sends]
                     /\ Finish(sell_except(MsgReverted))
    /\ UNCHANGED <<routerAddressSet, args, fn_in, fn_out>>

(***************************************************************************)
(* The object as __init__ leaves it: sell_tokens ends at the lookup of     *)
(* self.router_address, so the steps behind it are no steps of Spec.       *)
(***************************************************************************)
Next ==
    \/ BuyNext
    \/ SellCall \/ SellValidate \/ SellTokenInfo \/ SellAllowanceNoAttr

Spec == Init /\ [][Next]_vars

(***************************************************************************)
(* The object with or without a router_address given to it after           *)
(* construction: the rest of sell_tokens runs on the object that has one.  *)
(***************************************************************************)
InitRouter ==
    /\ pc = "idle"
    /\ routerAddressSet \in BOOLEAN
    /\ args = NoArgs
    /\ loc = NoLocals
    /\ hist = NoHist
    /\ result = Pending
    /\ chainNonce = 0
    /\ fn_in = <<>>
    /\ fn_out = <<>>

SellRest ==
    \/ SellAllowance \/ SellApproveBuild \/ SellApproveSend \/ SellApproveWait
    \/ SellQuote \/ SellBuild \/ SellSend \/ SellWait

NextRouter == Next \/ SellRest

SpecRouter == InitRouter /\ [][NextRouter]_vars

(***************************************************************************)
(* Two callers trading from one account.  Each runs buy_token_protected or *)
(* sell_tokens; only what touches the nonce is kept of a trade: the read   *)
(* of the transaction count when a transaction is built, its broadcast and *)
(* the wait for its receipt.  fn_in[c] is where caller c stands:           *)
(*   at       "idle", "build", "send" or "wait"                            *)
(*   kind     the transaction in hand: "buy", "approve" or "sell"          *)
(*   run      the trades the caller has started                            *)
(*   attempt  the loop variable of the buy's retry loop                    *)
(*   txn      the transaction built, tagged with caller and run            *)
(* fn_out is the node's side and the history: the pool of transactions the *)
(* node accepted, those mined, whether a trade was ever started while      *)
(* another was running, whether a wait ever gave up.                       *)
(***************************************************************************)
Callers == {1, 2}

Tx(c, run, txn) == [by |-> c, run |-> run, txn |-> txn]

IdleCaller == [at |-> "idle", kind |-> "none", run |-> 0, attempt |-> 0,
               txn |-> Tx(0, 0, NoTxn)]

\* w3.eth.get_transaction_count(self.wallet_address): the count of mined
\* transactions of the account
get_transaction_count(count) == count

\* a wait that hands back a receipt for a transaction not mined yet
receipt_ready_always(tx, mined) == TRUE
\* wait_for_transaction_receipt returns once the transaction is mined
receipt_ready(tx, mined) == tx \in mined

InitConcurrent ==
    /\ pc = "t_run"
    /\ routerAddressSet = TRUE
    /\ args = NoArgs
    /\ loc = NoLocals
    /\ hist = NoHist
    /\ result = Pending
    /\ chainNonce = 0
    /\ fn_in = [c \in Callers |-> IdleCaller]
    /\ fn_out = [pool |-> {}, mined |-> {},
                 overlapped |-> FALSE, timed_out |-> FALSE]

\* a caller starts a trade: a buy (260), a sell that needs an approval or one
\* that does not (307, 351)
TradeCall(c) ==
    /\ pc = "t_run"
    /\ fn_in[c].at = "idle"
    /\ fn_in[c].run < MaxRuns
    /\ chainNonce < MaxNonce
    /\ \E kind \in {"buy", "approve", "sell"} :
          fn_in' = [fn_in EXCEPT ![c] = [IdleCaller EXCEPT !.at = "build", !.kind = kind,
                                                         !.run = fn_in[c].run + 1]]
    /\ fn_out' = [fn_out EXCEPT !.overlapped =
                      @ \/ \E d \in Callers \ {c} : fn_in[d].at # "idle"]
    /\ UNCHANGED <<pc, routerAddressSet, args, loc, hist, result, chainNonce>>

\* the transaction in hand is built with the nonce read now: line 246 for the
\* buy, 358 for the approval, 396 for the swap
TradeBuild(c) ==
    /\ pc = "t_run"
    /\ fn_in[c].at = "build"
    /\ LET nonce == get_transaction_count(chainNonce)
           txn == IF fn_in[c].kind = "buy"
                  THEN buy_transaction(NoLocals, nonce, FALLBACK_GAS_LIMIT)
                  ELSE IF fn_in[c].kind = "approve"
                  THEN approve_transaction(0, nonce, 0, 0)
                  ELSE sell_transaction(NoLocals, nonce, 0, 0)
           tx == Tx(c, fn_in[c].run, txn)
       IN  fn_in' = [fn_in EXCEPT ![c].txn = tx, ![c].at = "send"]
    /\ UNCHANGED <<pc, routerAddressSet, args, loc, hist, result, chainNonce, fn_out>>

\* where an exception leaves the caller: the buy's loop retries (295-301), the
\* sell returns its failure (423-427)
AfterException(c) ==
    IF fn_in[c].kind = "buy" /\ fn_in[c].attempt < LAST_RETRY
    THEN [fn_in EXCEPT ![c].attempt = @ + 1, ![c].at = "send"]
    ELSE [fn_in EXCEPT ![c].at = "idle"]

\* send_raw_transaction (278, 365, 404): the node takes a transaction whose nonce
\* is not below the account's count, or the call raises
TradeSend(c) ==
    /\ pc = "t_run"
    /\ fn_in[c].at = "send"
    /\ \/ /\ fn_in[c].txn.txn.nonce >= chainNonce
          /\ fn_out' = [fn_out EXCEPT !.pool = @ \cup {fn_in[c].txn}]
          /\ fn_in' = [fn_in EXCEPT ![c].at = "wait"]
       \/ /\ fn_in' = AfterException(c)
          /\ UNCHANGED fn_out
    /\ UNCHANGED <<pc, routerAddressSet, args, loc, hist, result, chainNonce>>

\* wait_for_transaction_receipt (283, 366, 407): with the receipt the buy and the
\* swap return, and the approval is followed by the swap's build; without it the
\* wait gives up and raises
TradeWait(c) ==
    /\ pc = "t_run"
    /\ fn_in[c].at = "wait"
    /\ \/ /\ receipt_ready(fn_in[c].txn, fn_out.mined)
          /\ fn_in' = IF fn_in[c].kind = "approve"
                       THEN [fn_in EXCEPT ![c].kind = "sell", ![c].at = "build"]
                       ELSE [fn_in EXCEPT ![c].at = "idle"]
          /\ UNCHANGED fn_out
       \/ /\ fn_in[c].txn \notin fn_out.mined
          /\ fn_in' = AfterException(c)
          /\ fn_out' = [fn_out EXCEPT !.timed_out = TRUE]
    /\ UNCHANGED <<pc, routerAddressSet, args, loc, hist, result, chainNonce>>

\* the chain mines a pooled transaction that carries the account's next nonce
Mine ==
    /\ pc = "t_run"
    /\ \E tx \in fn_out.pool \ fn_out.mined :
          /\ tx.txn.nonce = chainNonce
          /\ fn_out' = [fn_out EXCEPT !.mined = @ \cup {tx}]
    /\ chainNonce' = chainNonce + 1
    /\ UNCHANGED <<pc, routerAddressSet, args, loc, hist, result, fn_in>>

NextConcurrent ==
    \/ \E c \in Callers : TradeCall(c)
    \/ \E c \in Callers : TradeBuild(c)
    \/ \E c \in Callers : TradeSend(c)
    \/ \E c \in Callers : TradeWait(c)
    \/ Mine

SpecConcurrent == InitConcurrent /\ [][NextConcurrent]_vars

(***************************************************************************)
(* get_optimal_gas_price applied on its own to the chain reads fn_in.      *)
(***************************************************************************)
EstimatorBaseFees == {0, 1, 100, 249, 250, 300, 1000}
EstimatorGasPrices == {0, 9, 50, 250, 251, 400, 4000}
EstimatorPendings ==
    PendingBlocks \cup
    { [ok |-> TRUE, listed |-> TRUE, txs |-> <<TxFee(0)>>],
      [ok |-> TRUE, listed |-> TRUE, txs |-> <<TxFee(260), TxFee(251), TxFee(1000)>>],
      [ok |-> TRUE, listed |-> TRUE, txs |-> <<TxFail, TxNoFee>>],
      [ok |-> TRUE, listed |-> TRUE, txs |-> <<TxFee(102), TxFee(100)>>],
      [ok |-> TRUE, listed |-> TRUE,
       txs |-> <<TxFee(101), TxFee(101), TxFee(101), TxFail, TxFee(101), TxFee(101),
                 TxNoFee, TxFee(101), TxFee(101), TxFee(101), TxFee(103), TxFee(103),
                 TxFee(103), TxFee(103), TxFee(103), TxFee(103), TxFee(103)>>] }
EstimatorReads ==
    [latest : {[ok |-> FALSE, base_fee |-> 0]}
                \cup {[ok |-> TRUE, base_fee |-> b] : b \in EstimatorBaseFees},
     pending : EstimatorPendings,
     gas : {[ok |-> FALSE, price |-> 0]}
             \cup {[ok |-> TRUE, price |-> g] : g \in EstimatorGasPrices}]

InitGas ==
    /\ pc = "g_call"
    /\ routerAddressSet = FALSE
    /\ args = NoArgs
    /\ loc = NoLocals
    /\ hist = NoHist
    /\ result = Pending
    /\ chainNonce = 0
    /\ fn_in \in EstimatorReads
    /\ fn_out = <<>>

EstimateGas ==
    /\ pc = "g_call"
    /\ fn_out' = get_optimal_gas_price(fn_in.latest, fn_in.pending, fn_in.gas)
    /\ pc' = "g_done"
    /\ UNCHANGED <<routerAddressSet, args, loc, hist, result, chainNonce, fn_in>>

NextGas == EstimateGas

SpecGas == InitGas /\ [][NextGas]_vars

(***************************************************************************)
(* The capacity clamp applied on its own: fn_in is the balance read, the   *)
(* plan's max fee and the requested amount.                                *)
(***************************************************************************)
ClampBalances == {0, 5000, 10000, 10001, 500000, 1000000, 1000001, 1000063,
                  2000000, 3999999}
ClampFees == {0, 1, 57, 100, 300}
ClampRequested == {1, 1000, 500000, 970000, 1000000, 2000000}
ClampInputs == [balance : ClampBalances, max_fee : ClampFees, requested : ClampRequested]

InitClamp ==
    /\ pc = "c_call"
    /\ routerAddressSet = FALSE
    /\ args = NoArgs
    /\ loc = NoLocals
    /\ hist = NoHist
    /\ result = Pending
    /\ chainNonce = 0
    /\ fn_in \in ClampInputs
    /\ fn_out = <<>>

ApplyClamp ==
    /\ pc = "c_call"
    /\ LET max_spend == calculate_max_spend(fn_in.balance, fn_in.max_fee)
           c == clamp_amount(fn_in.requested, max_spend)
       IN  fn_out' = [max_spend |-> max_spend, amount_in_wei |-> c.amount_in_wei,
                      insufficient |-> c.insufficient]
    /\ pc' = "c_done"
    /\ UNCHANGED <<routerAddressSet, args, loc, hist, result, chainNonce, fn_in>>

NextClamp == ApplyClamp

SpecClamp == InitClamp /\ [][NextClamp]_vars

(***************************************************************************)
(* check_token_liquidity applied on its own: fn_in is the call's arguments *)
(* and the chain reads it makes.                                           *)
(***************************************************************************)
LiquidityRequested == {-ETHER, 0, ETHER \div 10, ETHER \div 2, ETHER}
LiquidityOuts == {0, 10, 45, 55, 88, 90, 92, 100, 108, 110, 112}
LiquidityQuotes == {[ok |-> FALSE, out |-> 0]} \cup {[ok |-> TRUE, out |-> o] : o \in LiquidityOuts}
LiquiditySmalls == {[ok |-> FALSE, out |-> 0], [ok |-> TRUE, out |-> 0], [ok |-> TRUE, out |-> 10]}
LiquidityInputs ==
    [addr_ok : BOOLEAN, requested : LiquidityRequested, info_ok : BOOLEAN,
     quote : LiquidityQuotes, supply : Supplies, small : LiquiditySmalls]

InitLiquidity ==
    /\ pc = "l_call"
    /\ routerAddressSet = FALSE
    /\ args = NoArgs
    /\ loc = NoLocals
    /\ hist = NoHist
    /\ result = Pending
    /\ chainNonce = 0
    /\ fn_in \in LiquidityInputs
    /\ fn_out = <<>>

CheckLiquidity ==
    /\ pc = "l_call"
    /\ fn_out' = check_token_liquidity(fn_in.addr_ok, fn_in.requested, fn_in.info_ok,
                                       fn_in.quote, fn_in.supply, fn_in.small)
    /\ pc' = "l_done"
    /\ UNCHANGED <<routerAddressSet, args, loc, hist, result, chainNonce, fn_in>>

NextLiquidity == CheckLiquidity

SpecLiquidity == InitLiquidity /\ [][NextLiquidity]_vars

(***************************************************************************)
(* Claims                                                                  *)
(***************************************************************************)
IsBuy == args.op = "buy"
IsSell == args.op = "sell"
SellFailed == /\ result.state = "returned"
              /\ result.value.py = "dict"
              /\ result.value.success = FALSE

\* C1: buy and sell never raise to the caller.  Whatever chain call fails, no
\* invocation ends in an exception; a finished buy handed back None or the
\* transaction hash, a finished sell a record with a success flag, and with an
\* error string when the flag is false.
C1_NeverRaises ==
    /\ result.state # "raised"
    /\ pc = "done" =>
          /\ result.state = "returned"
          /\ IsBuy => \/ result.value = PyNone
                      \/ result.value = PyStr(TxHash)
          /\ IsSell => /\ result.value.py = "dict"
                       /\ "success" \in DOMAIN result.value
                       /\ result.value.success = FALSE => "error" \in DOMAIN result.value

\* C1 witness: a sell whose only broadcast failed has returned its failure record.
C1_Witness ==
    /\ pc = "done" /\ IsSell
    /\ hist.sends = 1 /\ hist.accepted = 0
    /\ SellFailed

\* C2: a finished buy whose broadcasts all failed made exactly 3 of them with 2
\* pauses and returned None; a buy whose first broadcast was accepted made
\* exactly 1 broadcast.
C2_AttemptCounts ==
    (IsBuy /\ pc = "done" /\ hist.sends > 0) =>
        /\ hist.accepted = 0 => /\ hist.sends = MAX_ATTEMPTS
                                /\ hist.sleeps = MAX_ATTEMPTS - 1
                                /\ result.value = PyNone
        /\ hist.first_accept = 1 => hist.sends = 1

\* C3: once a broadcast of the buy was accepted, no further broadcast is made in
\* that trade.
C3_NoBroadcastAfterAccept ==
    (IsBuy /\ hist.first_accept > 0) => hist.sends = hist.first_accept

\* C4: a buy that saw a receipt with status 1 returns the transaction hash.
C4_Status1IsSuccess ==
    (IsBuy /\ pc = "done" /\ hist.status1_seen) => result.value = PyStr(TxHash)

\* C5: a receipt with status 0 ends the trade in both flows: the invocation is
\* over with a failure (buy: None, sell: success false) and no broadcast was
\* made after the receipt.
C5_Status0Terminal ==
    hist.status0_at # -1 =>
        /\ pc = "done"
        /\ hist.sends = hist.status0_at
        /\ IsBuy => result = Returned(PyNone)
        /\ IsSell => SellFailed

\* C5 witness: a sell whose swap was mined with status 0 has returned.
C5_Witness ==
    /\ IsSell /\ pc = "done"
    /\ hist.status0_at = 1 /\ loc.receipt_status = 0
    /\ SellFailed

\* C6: a finished sell with valid inputs (address, slippage in (0,100),
\* 0 < amount <= held balance), no failed chain call and no receipt of status 0
\* has success true.
C6_ValidSellSucceeds ==
    ( /\ IsSell /\ pc = "done"
      /\ args.addr_ok /\ slippage_valid(args.slippage)
      /\ loc.amount_in_token_units > 0
      /\ loc.amount_in_token_units <= loc.token_balance
      /\ hist.calls_ok
      /\ loc.receipt_status # 0 )
    => /\ result.state = "returned"
       /\ result.value.py = "dict"
       /\ result.value.success = TRUE

\* C7: every plan the estimator returns has max fee <= the configured ceiling.
C7_MaxFeeCapped ==
    (pc = "g_done" /\ ~fn_out.raised) => fn_out.max_fee <= max_gas_price

\* C7 witness: the fallback branch, taken after a failed block read, returned the
\* ceiling for a gas price whose 1.2-fold is above it.
C7_Witness ==
    /\ pc = "g_done"
    /\ ~fn_in.latest.ok /\ fn_in.gas.ok
    /\ fn_in.gas.price * 12 > max_gas_price * 10
    /\ ~fn_out.raised /\ fn_out.max_fee = max_gas_price

C9_EstimatorTotal ==
    pc = "g_done" => ~fn_out.raised

\* C10: maxSpend = max(0, balance - maxFee x 350000 - reserve), the final amount
\* is min(requested, maxSpend), never negative, never above balance - reserve,
\* never above the requested amount.
C10_ClampExact ==
    pc = "c_done" =>
        LET cost == (fn_in.max_fee * CLAMP_GAS_LIMIT) \div GWEI_PER_SZABO
            exact == Max(0, fn_in.balance - cost - min_eth_balance)
        IN  /\ fn_out.max_spend = exact
            /\ fn_out.amount_in_wei = Min(fn_in.requested, exact)
            /\ fn_out.amount_in_wei >= 0
            /\ fn_out.amount_in_wei <= Max(0, fn_in.balance - min_eth_balance)
            /\ fn_out.amount_in_wei <= fn_in.requested

\* C11: for every slippage in (0,100) the minimum output of the built buy swap is
\* floor(quotedOutput x (1 - slippage/100)), the quote being the one fetched for
\* the final (post-clamp) input amount, and a larger slippage never gives a
\* larger minimum output for the same quote.
C11_MinOutputExact ==
    \A t \in hist.built :
        (t.kind = "buy" /\ slippage_valid(args.slippage)) =>
            /\ loc.quote_amount = t.value
            /\ t.min_out = (loc.quoted * (1000 - args.slippage)) \div 1000
            /\ \A s2 \in Slippages :
                  (slippage_valid(s2) /\ s2 >= args.slippage)
                      => min_tokens_of(loc.quoted, s2) <= t.min_out

ApprovalBuilt == \E t \in hist.built : t.kind = "approve"
PastApproval == pc \in {"s_quote", "s_build", "s_send", "s_wait"}

C13_RejectedBeforeBuild ==
    IsBuy =>
        /\ (loc.insufficient # -1 /\ loc.amount_in_wei <= 0) => loc.insufficient = 1
        /\ (loc.has_liquidity = 0 \/ loc.insufficient = 1) =>
              /\ pc = "done"
              /\ result = Returned(PyNone)
              /\ hist.nonce_reads = 0 /\ hist.signs = 0 /\ hist.sends = 0
              /\ hist.built = {}

\* C13 witness: a buy has ended because the clamp left nothing to spend.
C13_Witness ==
    /\ IsBuy /\ pc = "done"
    /\ loc.has_liquidity = 1 /\ loc.insufficient = 1
    /\ loc.amount_in_wei = 0 /\ args.requested > 0

\* the reads of the liquidity check up to the first quote returned, the token has
\* a supply
LiquidityReadsOk ==
    /\ fn_in.addr_ok /\ fn_in.requested > 0 /\ fn_in.info_ok
    /\ fn_in.quote.ok /\ fn_in.supply.ok /\ fn_in.supply.total # 0

\* C14: when the quote for the requested input is zero (the total supply being
\* nonzero) the liquidity check answers ok = false with the zero-output reason.
C14_ZeroOutputReason ==
    (pc = "l_done" /\ LiquidityReadsOk /\ fn_in.quote.out = 0) =>
        /\ ~fn_out.ok
        /\ fn_out.reason = ReasonZeroOutput

\* the price impact |1 - (out/eth_amount) / (small/0.1)| in exact arithmetic
\* exceeds 10%
ExactImpactHigh ==
    Abs(10 * fn_in.requested * fn_in.small.out - fn_in.quote.out * ETHER)
        > fn_in.requested * fn_in.small.out

\* C15: with nonzero supply and nonzero quotes the liquidity check rejects
\* exactly when the price impact exceeds 10% and accepts otherwise, and on
\* acceptance the ratio returned is amountOut / totalSupply.
C15_ImpactThreshold ==
    ( /\ pc = "l_done" /\ LiquidityReadsOk
      /\ fn_in.quote.out # 0 /\ fn_in.small.ok /\ fn_in.small.out # 0 )
    => /\ fn_out.ok <=> ~ExactImpactHigh
       /\ fn_out.ok => fn_out.ratio = FloatOfRatio(fn_in.quote.out, fn_in.supply.total)

\* the place of a step in the order of entry, 0 when it was not entered
Pos(name) ==
    IF \E i \in 1..Len(hist.stages) : hist.stages[i] = name
    THEN CHOOSE i \in 1..Len(hist.stages) : hist.stages[i] = name
    ELSE 0
Entered(name) == Pos(name) > 0
InOrder(names) ==
    /\ \A i \in 1..Len(names) : Entered(names[i])
    /\ \A i \in 1..Len(names) : \A j \in 1..Len(names) :
          i < j => Pos(names[i]) < Pos(names[j])
ResultSuccess ==
    /\ result.state = "returned"
    /\ \/ result.value = PyStr(TxHash)
       \/ (result.value.py = "dict" /\ result.value.success)

NothingBroadcast ==
    /\ hist.sends = 0 /\ hist.approve_sends = 0
    /\ hist.built = {}

C20_OneNoncePerTransaction ==
    /\ hist.nonce_reads >= Cardinality(hist.built)
    /\ hist.nonce_reads <= Cardinality(hist.built) + (IF pc = "done" THEN 1 ELSE 0)
    /\ hist.signs <= Cardinality(hist.built)
    /\ IsBuy =>
          /\ hist.nonce_reads <= 1 /\ hist.signs <= 1
          /\ hist.sends > 0 => (hist.signs = 1 /\ hist.sent = {loc.unsigned_txn}
                                 /\ hist.built = hist.sent)
    /\ IsSell =>
          \A a \in hist.built : \A t \in hist.built :
              (a.kind = "approve" /\ t.kind = "sell") =>
                  /\ loc.approve_status # -1
                  /\ t.nonce = a.nonce + 1

\* C20 witness: a buy has broadcast three times with one nonce read and one
\* signature.
C20_Witness ==
    /\ IsBuy /\ hist.sends = MAX_ATTEMPTS
    /\ hist.nonce_reads = 1 /\ hist.signs = 1
    /\ hist.sent = {loc.unsigned_txn}

C22_GasLimitOrFallback ==
    (IsBuy /\ loc.probe_ok # -1) =>
        /\ loc.unsigned_txn.kind = "buy"
        /\ loc.unsigned_txn \in hist.built
        /\ loc.probe_ok = 1 => loc.unsigned_txn.gas = (loc.estimated * 12) \div 10
        /\ loc.probe_ok = 0 => loc.unsigned_txn.gas = 350000
        /\ pc = "done" => Entered("sign")

\* C22 witness: a buy whose probe raised was built with the fallback limit,
\* broadcast, and returned its hash.
C22_Witness ==
    /\ IsBuy /\ loc.probe_ok = 0
    /\ loc.unsigned_txn.gas = 350000
    /\ pc = "done" /\ result = buy_success(TxHash)

\* C23: on the estimator's main branch the sample is the declared max fees of
\* the first 10 pending transactions whose lookup returned; the priority fee is
\* min(median(sample) - base fee, 3 gwei) with the statistical median (the mean
\* of the two middle values for an even size) when the sample is not empty, and
\* 2 gwei when it is.  Twice the values are compared, to stay in integers.
C23_PriorityFeeFromMedian ==
    (pc = "g_done" /\ fn_in.latest.ok /\ fn_in.pending.ok) =>
        LET txs == fn_in.pending.txs
            first == SubSeq(txs, 1, Min(Len(txs), 10))
            kept == SelectSeq(first, LAMBDA tx : tx.ok /\ tx.has_fee)
            n == Len(kept)
            fees == [i \in 1..n |-> kept[i].fee]
            median2 == IF n % 2 = 1 THEN 2 * SortedAt(fees, n \div 2)
                       ELSE SortedAt(fees, n \div 2 - 1) + SortedAt(fees, n \div 2)
        IN  IF fn_in.pending.listed /\ n > 0
            THEN 2 * fn_out.priority_fee = Min(median2 - 2 * fn_in.latest.base_fee, 2 * 3)
            ELSE fn_out.priority_fee = 2

\* C25: every buy transaction built is affordable with the reserve kept: its value
\* plus its max fee times the gas limit it carries is at most the balance the
\* clamp read minus min_eth_balance (compared in gwei).
C25_BuyAffordable ==
    \A t \in hist.built :
        t.kind = "buy" =>
            t.value * GWEI_PER_SZABO + t.maxFeePerGas * t.gas
                <= (loc.balance - min_eth_balance) * GWEI_PER_SZABO

\* C26: every plan the estimator returns has 0 <= priority fee <= max fee.
C26_PlanConsistent ==
    (pc = "g_done" /\ ~fn_out.raised) =>
        (0 <= fn_out.priority_fee /\ fn_out.priority_fee <= fn_out.max_fee)

\* C27: every swap built, buy or sell, carries a minimum output between 0 and
\* the quoted output, and a buy is built only for a slippage strictly between
\* 0 and 100 percent.
C27_MinOutputInRange ==
    \A t \in hist.built :
        /\ t.kind = "buy" =>
              /\ 0 <= t.min_out /\ t.min_out <= loc.quoted
              /\ 0 < args.slippage /\ args.slippage < 1000
        /\ t.kind = "sell" => (0 <= t.min_out /\ t.min_out <= loc.expected_eth)

\* C24: when the trades on the account are started one after the other and every
\* wait got its receipt, no two transactions the node accepted carry the same
\* nonce.  (Interleaved trades do reach the same nonce: C24_Witness.)
C24_SerializedNoncesDistinct ==
    (pc = "t_run" /\ ~fn_out.overlapped /\ ~fn_out.timed_out) =>
        \A a \in fn_out.pool : \A b \in fn_out.pool :
            a # b => a.txn.nonce # b.txn.nonce

\* C24 witness: the trades of two callers interleaved, each has built its
\* transaction, the two carry the same nonce, and the node took both.
C24_Witness ==
    /\ pc = "t_run" /\ fn_out.overlapped
    /\ \A c \in Callers : fn_in[c].at = "wait" /\ fn_in[c].txn \in fn_out.pool
    /\ fn_in[1].txn.txn.nonce = fn_in[2].txn.txn.nonce

=============================================================================
